---- MODULE Spec2Model ----
(***************************************************************************)
(* MCP client: tool selection and risk gate (useMCPClient hook), the       *)
(* views that drive it, the tool-selection record of the configuration     *)
(* store, and the stateless MCP session operations of the server           *)
(* (MCPServerClient and the *WithConfig actions).                          *)
(***************************************************************************)
EXTENDS Naturals, Integers, Sequences, FiniteSets, TLC

VARIABLES
    selectedService,    \* config.selectedService of the hook
    selectedTools,      \* config.selectedTools: toolId -> boolean, partial
    permissionRequest,  \* the hook's single PermissionRequest slot, or Null
    services,           \* the /api/services query result held by the hook
    attempted,          \* history: identities whose high-risk toggle was gated
    lastOp,             \* history: the handler that ran last, with its inputs
    localStorage,       \* window.localStorage: key -> serialised value
    notifications,      \* the CustomEvents the last handler dispatched on window
    saved,              \* history: id -> config saved by saveServiceConfig, not removed
    pc,                 \* session operation: position in the action
    op,                 \* session operation: which *WithConfig action runs
    url,                \* session operation: kind of config.url
    client,             \* session operation: the local `client` ("null" or "client")
    isConnected,        \* MCPServerClient.isConnected
    transport,          \* state of the transport created by connect()
    remote,             \* what the remote side did with the RPC
    result,             \* the value the action returns
    events,             \* history: connect / rpc / disconnect calls, in order
    now,                \* server clock, milliseconds: Date.now()
    ticks,              \* history: how many times the clock advanced
    connectedServers,   \* routes.ts registry: url -> { name, url, tools, lastSeen }
    liveServers,        \* what the last getConnectedMCPServers() returned
    lastRoute,          \* history: the route that ran last, with its input
    lifecycle,          \* history: what was last done to an MCPServerClient used directly
    messages,           \* the hook's chat messages, oldest first
    abortController,    \* the hook's AbortController slot, or Null
    chatRequest,        \* the POST /api/chat of the running send: none, pending, aborted
    isPending,          \* sendMessageMutation.isPending, returned as isSending
    requestBody,        \* history: the body of the last POST /api/chat, or Null
    chatOp,             \* history: the chat handler or callback that ran last
    viewTools,          \* ConfiguredServerView: the `tools` state, or Null when not mounted
    viewIsLoading,      \* ConfiguredServerView: the `isLoading` state
    refreshes,          \* the list-tools requests of the mounted view that are in flight
    configuredServers   \* MainContent: the `configuredServers` state

vars == <<selectedService, selectedTools, permissionRequest, services, attempted,
          lastOp, localStorage, notifications, saved, pc, op, url, client, isConnected, transport,
          remote, result, events, now, ticks, connectedServers, liveServers,
          lastRoute, lifecycle, messages, abortController, chatRequest, isPending,
          requestBody, chatOp, viewTools, viewIsLoading, refreshes, configuredServers>>

gateVars == <<selectedService, selectedTools, permissionRequest, services,
              attempted, lastOp>>

sessionVars == <<pc, op, url, client, isConnected, transport, remote, result, events>>

storeVars == <<localStorage, notifications, saved>>

registryVars == <<now, ticks, connectedServers, liveServers, lastRoute>>

chatVars == <<messages, abortController, chatRequest, isPending, requestBody>>

viewVars == <<viewTools, viewIsLoading, refreshes>>

catalogVars == <<configuredServers>>

\* What a write of the configured servers and its listeners leave alone
outsideCatalog == <<sessionVars, registryVars, lifecycle, chatVars, chatOp, viewVars>>

\* What the handlers of the hook, the views and the store leave alone
outsideGate == <<outsideCatalog, catalogVars>>

\* What a session operation leaves alone
outsideSession == <<gateVars, storeVars, registryVars, lifecycle, chatVars, chatOp,
                    viewVars, catalogVars>>

\* What the routes that keep the registry leave alone
outsideRegistry == <<gateVars, storeVars, sessionVars, lifecycle, chatVars, chatOp,
                     viewVars, catalogVars>>

\* What a method of an MCPServerClient used directly leaves alone
outsideClient == <<gateVars, storeVars, registryVars, pc, op, url, client, remote,
                   chatVars, chatOp, viewVars, catalogVars>>

\* What a chat handler or callback leaves alone
outsideChat == <<gateVars, storeVars, sessionVars, registryVars, lifecycle, viewVars,
                 catalogVars>>

\* What the ConfiguredServerView leaves alone
outsideView == <<sessionVars, registryVars, lifecycle, chatVars, chatOp, catalogVars>>

----------------------------------------------------------------------------
(* Values *)

\* null / undefined in a slot that holds an object
Null == [null |-> TRUE]

\* undefined in a slot that holds a string
Undefined == "undefined"

\* Arguments a caller can hand to deselectAllTools(currentServerTools?)
NoArgument == [kind |-> "undefined"]

\* the click event React hands to an onClick handler
ClickEvent == [kind |-> "event"]

ToolArray(tools) == [kind |-> "array", items |-> tools]

ServerIds == {"gh", "jira"}
RiskLevels == {"low", "medium", "high"}
ConfigurationTab == "configuration"

\* `${serverId}:${toolName}`
\* Variant of the key that leaves the server id out; C28 must not hold of it.
ToolNameOnly(serverId, toolName) == toolName

ToolId(serverId, toolName) == serverId \o ":" \o toolName

\* the elements of an array
Range(seq) == {seq[i] : i \in 1..Len(seq)}

\* A tool as MCPServerClient.listTools returns it and saveConfiguredServer persists
\* it: name, description (and inputSchema); no riskLevel field.
DiscoveredTool(name, description) ==
    [name |-> name, description |-> description, riskLevel |-> Undefined]

\* The configured servers the views show, each with its persisted tool snapshot:
\* two servers that expose a tool of the same name.
ConfiguredServers ==
    [s \in ServerIds |->
        [id |-> s,
         tools |-> << DiscoveredTool("create_issue", "Create an issue") >>]]

\* The identities of the known tools.
ToolIds ==
    UNION {{ToolId(s, t.name) : t \in Range(ConfiguredServers[s].tools)} : s \in ServerIds}

\* Responses of GET /api/services: the empty list the server storage holds, and a
\* catalog that lists the service "gh" with tools identified by the composite key.
EmptyCatalog == << >>

GhCatalog ==
    << [id |-> "gh",
        tools |-> << [id |-> "gh:create_issue", name |-> "create_issue",
                      description |-> "Create an issue", riskLevel |-> "high"],
                     [id |-> "gh:list_branches", name |-> "list_branches",
                      description |-> "List branches", riskLevel |-> "low"] >>] >>

\* A catalog that lists both services, each tool identified by the composite key.
FullCatalog ==
    GhCatalog \o
    << [id |-> "jira",
        tools |-> << [id |-> "jira:create_issue", name |-> "create_issue",
                      description |-> "Create an issue", riskLevel |-> "high"] >>] >>

ServiceCatalogs == {EmptyCatalog, GhCatalog, FullCatalog}

----------------------------------------------------------------------------
(* JavaScript object helpers *)

EmptyMap == [k \in {} |-> TRUE]

\* key in obj
Has(obj, key) == key \in DOMAIN obj

\* Boolean(obj[key]): an absent key reads undefined, which is falsy
TruthyAt(obj, key) == Has(obj, key) /\ obj[key]

\* obj[key] ?? dflt
OrDefault(obj, key, dflt) == IF Has(obj, key) THEN obj[key] ELSE dflt

\* { ...obj, [key]: value }
Put(obj, key, value) == [k \in DOMAIN obj \cup {key} |-> IF k = key THEN value ELSE obj[k]]

\* { ...a, ...b }
Spread(a, b) == [k \in DOMAIN a \cup DOMAIN b |-> IF k \in DOMAIN b THEN b[k] ELSE a[k]]

\* array.find(pred): the first element of seq in the set matching, or undefined
Find(seq, matching) ==
    IF \E i \in 1..Len(seq) : seq[i] \in matching
    THEN seq[CHOOSE i \in 1..Len(seq) :
                 /\ seq[i] \in matching
                 /\ \A j \in 1..(i - 1) : seq[j] \notin matching]
    ELSE Null

----------------------------------------------------------------------------
(* window.localStorage: keys, serialisation, change events *)

STORAGE_PREFIX == "mcp-client"

\* `${STORAGE_PREFIX}-${serviceId}`
getStorageKey(serviceId) == STORAGE_PREFIX \o "-" \o serviceId

\* `${STORAGE_PREFIX}-tool-selection`
TOOL_SELECTION_KEY == STORAGE_PREFIX \o "-tool-selection"

\* `${STORAGE_PREFIX}-configured-servers`
CONFIGURED_SERVERS_KEY == STORAGE_PREFIX \o "-configured-servers"

\* the hook's key
STORAGE_KEY == "mcp-client-config"

\* What can follow STORAGE_PREFIX + '-' in a key of this application
KeySuffixes == ServerIds \cup {"tool-selection", "configured-servers", "config"}

\* key.startsWith(STORAGE_PREFIX + '-')
StartsWithPrefix(key) == \E suffix \in KeySuffixes : key = getStorageKey(suffix)

\* key.replace(STORAGE_PREFIX + '-', '')
WithoutPrefix(key) == CHOOSE suffix \in KeySuffixes : key = getStorageKey(suffix)

\* key.includes('-tool-selection')
IncludesToolSelection(key) == key = TOOL_SELECTION_KEY

\* JSON.stringify(value): the text stored under a key
JSONstringify(value) == [json |-> value]

\* JSON.parse(text)
JSONparse(text) == text.json

\* Variant of the serialisation that keeps the url property only; C12 must not
\* hold of it.
OnlyUrl(obj) == [k \in {"url"} |-> obj[k]]

\* JSON.stringify of an object with string properties: a property whose value is
\* undefined is left out of the text
WithoutUndefined(obj) == [k \in {f \in DOMAIN obj : obj[f] # Undefined} |-> obj[k]]

\* localStorage.getItem(key): the stored text, or null
getItem(key) == IF Has(localStorage, key) THEN localStorage[key] ELSE Null

\* Variant of removeItem that clears the whole storage; C13 must not hold of it.
WithoutAnything(obj, key) == EmptyMap

\* localStorage.removeItem(key)
Without(obj, key) == [k \in DOMAIN obj \ {key} |-> obj[k]]

\* new CustomEvent('localStorageChange', { detail: { key, newValue } })
LocalStorageChange(key, newValue) ==
    [type |-> "localStorageChange", key |-> key, newValue |-> newValue]

\* loadToolSelection(): JSON.parse(stored) if (stored), else {}
loadToolSelection ==
    IF getItem(TOOL_SELECTION_KEY) # Null
    THEN JSONparse(getItem(TOOL_SELECTION_KEY))
    ELSE EmptyMap

\* What the hook persists of its config
PersistedConfig(service, tools) ==
    JSONstringify([selectedService |-> service, selectedTools |-> tools])

\* useEffect(..., [config]) after updateConfig: localStorage.setItem(STORAGE_KEY,
\* JSON.stringify(config)) and dispatch of 'localStorageChange'
persistConfig(service, tools) ==
    /\ localStorage' = Put(localStorage, STORAGE_KEY, PersistedConfig(service, tools))
    /\ notifications' = << LocalStorageChange(STORAGE_KEY, PersistedConfig(service, tools)) >>
    /\ UNCHANGED saved

\* A handler that does not call updateConfig: the effect does not run
configUntouched ==
    /\ notifications' = << >>
    /\ UNCHANGED <<localStorage, saved>>

----------------------------------------------------------------------------
(* Reads of the selected flag *)

\* mcp-storage isToolSelected: loadToolSelection()[toolId] ?? true
isToolSelected(serviceId, toolName) ==
    OrDefault(loadToolSelection, ToolId(serviceId, toolName), TRUE)

\* ConfiguredServerView: const isSelected = selectedTools[toolId] ?? false
isSelected(toolId) == OrDefault(selectedTools, toolId, FALSE)

\* hook toggleToolSelection: the truth value of config.selectedTools[toolId]
currentlySelected(toolId) == TruthyAt(selectedTools, toolId)

\* ConfiguredServerView: tool.riskLevel || "low"
riskLevelOf(tool) == IF tool.riskLevel = Undefined THEN "low" ELSE tool.riskLevel

----------------------------------------------------------------------------
(* The hook: useMCPClient *)

\* Variant of the gate condition that also holds back medium-risk toggles;
\* C2 must not hold of it.
ToggleGatedAboveLow(toolId, riskLevel) ==
    ~currentlySelected(toolId) /\ riskLevel # "low"

\* Variant of the gate condition that lets a high-risk toggle through while a
\* request is pending; C4 must not hold of it.
ToggleGatedWhenNonePending(toolId, riskLevel) ==
    ~currentlySelected(toolId) /\ riskLevel = "high" /\ permissionRequest = Null

\* !currentlySelected && riskLevel === "high"
ToggleGated(toolId, riskLevel) ==
    ~currentlySelected(toolId) /\ riskLevel = "high"

\* services.find(s => s.id === config.selectedService)?.tools.find(t => t.id === toolId)
FindTool(toolId) ==
    LET service == Find(services, {s \in Range(services) : s.id = selectedService})
    IN  IF service = Null
        THEN Null
        ELSE Find(service.tools, {t \in Range(service.tools) : t.id = toolId})

\* { toolId, toolName: tool.name, description: tool.description, riskLevel: "high" }
NewPermissionRequest(toolId, tool) ==
    [toolId |-> toolId, toolName |-> tool.name,
     description |-> tool.description, riskLevel |-> "high"]

\* { ...config.selectedTools, [toolId]: !currentlySelected }
ToggledSelection(toolId) ==
    Put(selectedTools, toolId, ~currentlySelected(toolId))

toggleToolSelection(toolId, riskLevel) ==
    /\ IF ToggleGated(toolId, riskLevel)
       THEN /\ permissionRequest' =
                   IF FindTool(toolId) # Null
                   THEN NewPermissionRequest(toolId, FindTool(toolId))
                   ELSE permissionRequest
            /\ attempted' = attempted \cup {toolId}
            /\ UNCHANGED selectedTools
            /\ configUntouched
       ELSE /\ selectedTools' = ToggledSelection(toolId)
            /\ persistConfig(selectedService, ToggledSelection(toolId))
            /\ UNCHANGED <<permissionRequest, attempted>>
    /\ lastOp' = [op |-> "toggleToolSelection", toolId |-> toolId, riskLevel |-> riskLevel]
    /\ UNCHANGED <<selectedService, services>>
    /\ UNCHANGED outsideGate

\* permissionRequest?.toolId
RequestedToolId == IF permissionRequest # Null THEN permissionRequest.toolId ELSE Undefined

\* Variant of the approved selection that drops the spread of config.selectedTools;
\* C5 must not hold of it.
ApprovedSelectionWithoutSpread(request) == [k \in {request.toolId} |-> TRUE]

\* if (permissionRequest) { updateConfig({selectedTools: {..., [toolId]: true}}); clear }
ApprovedSelection(request) == Put(selectedTools, request.toolId, TRUE)

approvePermission ==
    /\ IF permissionRequest # Null
       THEN /\ selectedTools' = ApprovedSelection(permissionRequest)
            /\ persistConfig(selectedService, ApprovedSelection(permissionRequest))
            /\ permissionRequest' = Null
       ELSE /\ configUntouched
            /\ UNCHANGED <<selectedTools, permissionRequest>>
    /\ lastOp' = [op |-> "approvePermission", toolId |-> RequestedToolId]
    /\ UNCHANGED <<selectedService, services, attempted>>
    /\ UNCHANGED outsideGate

\* Variant of deny that commits the pending identity; C6 must not hold of it.
DeniedSelectionCommitted ==
    IF permissionRequest # Null
    THEN Put(selectedTools, permissionRequest.toolId, TRUE)
    ELSE selectedTools

\* setPermissionRequest(null)
DeniedSelection == selectedTools

denyPermission ==
    /\ permissionRequest' = Null
    /\ selectedTools' = DeniedSelection
    /\ configUntouched
    /\ lastOp' = [op |-> "denyPermission", toolId |-> RequestedToolId]
    /\ UNCHANGED <<selectedService, services, attempted>>
    /\ UNCHANGED outsideGate

\* Object.values(config.selectedTools).some(Boolean)
hasAnySelected == \E k \in DOMAIN selectedTools : selectedTools[k]

\* currentServerTools.reduce((acc, tool) => { acc[`${selectedService}:${tool.name}`] = true })
allToolsSelected(currentServerTools) ==
    [k \in {ToolId(selectedService, t.name) : t \in Range(currentServerTools.items)} |-> TRUE]

\* if (currentServerTools): undefined is falsy, an event object or an array is truthy
IsTruthyArgument(arg) == arg.kind # "undefined"

\* Only an array has reduce: on the click event currentServerTools.reduce is not a
\* function and the handler throws a TypeError before updateConfig.
HasReduce(arg) == arg.kind = "array"

\* updateConfig({ selectedTools: {} })
ClearedSelection == EmptyMap

\* updateConfig({ selectedTools: { ...config.selectedTools, ...allToolsSelected } })
SelectedAll(currentServerTools) == Spread(selectedTools, allToolsSelected(currentServerTools))

deselectAllTools(currentServerTools) ==
    /\ selectedTools' =
          IF hasAnySelected
          THEN ClearedSelection
          ELSE IF IsTruthyArgument(currentServerTools) /\ HasReduce(currentServerTools)
               THEN SelectedAll(currentServerTools)
               ELSE selectedTools
    /\ lastOp' = [op |-> "deselectAllTools", arg |-> currentServerTools.kind,
                  threw |-> ~hasAnySelected /\ IsTruthyArgument(currentServerTools)
                              /\ ~HasReduce(currentServerTools)]
    /\ IF hasAnySelected
       THEN persistConfig(selectedService, ClearedSelection)
       ELSE IF IsTruthyArgument(currentServerTools) /\ HasReduce(currentServerTools)
            THEN persistConfig(selectedService, SelectedAll(currentServerTools))
            ELSE configUntouched
    /\ UNCHANGED <<selectedService, permissionRequest, services, attempted>>
    /\ UNCHANGED outsideGate

\* onSelectService={(serviceId) => updateConfig({ selectedService: serviceId })}
onSelectService(serviceId) ==
    /\ selectedService' = serviceId
    /\ lastOp' = [op |-> "onSelectService", serviceId |-> serviceId]
    /\ persistConfig(serviceId, selectedTools)
    /\ UNCHANGED <<selectedTools, permissionRequest, services, attempted>>
    /\ UNCHANGED outsideGate

\* useQuery({ queryKey: ["/api/services"] }): a response replaces `services`
servicesLoaded(catalog) ==
    /\ services' = catalog
    /\ lastOp' = [op |-> "servicesLoaded"]
    /\ configUntouched
    /\ UNCHANGED <<selectedService, selectedTools, permissionRequest, attempted>>
    /\ UNCHANGED outsideGate

----------------------------------------------------------------------------
(* The configuration store: tool selection kept under 'mcp-client-tool-selection' *)

\* localStorage.setItem(TOOL_SELECTION_KEY, serialized); dispatch 'localStorageChange'
saveToolSelection(toolSelections) ==
    /\ localStorage' = Put(localStorage, TOOL_SELECTION_KEY, JSONstringify(toolSelections))
    /\ notifications' =
          << LocalStorageChange(TOOL_SELECTION_KEY, JSONstringify(toolSelections)) >>
    /\ UNCHANGED saved
    /\ UNCHANGED <<selectedService, selectedTools, permissionRequest, services, attempted>>
    /\ UNCHANGED outsideGate

\* { ...currentSelection, [toolId]: !(currentSelection[toolId] ?? true) }
StoreToggled(currentSelection, toolId) ==
    Put(currentSelection, toolId, ~OrDefault(currentSelection, toolId, TRUE))

\* The store's toggleToolSelection(serviceId, toolName)
toggleStoredToolSelection(serviceId, toolName) ==
    /\ saveToolSelection(StoreToggled(loadToolSelection, ToolId(serviceId, toolName)))
    /\ lastOp' = [op |-> "toggleStoredToolSelection"]

\* { ...currentSelection, [toolId]: selected }
setToolSelection(serviceId, toolName, selected) ==
    /\ saveToolSelection(Put(loadToolSelection, ToolId(serviceId, toolName), selected))
    /\ lastOp' = [op |-> "setToolSelection"]

----------------------------------------------------------------------------
(* The views that call the hook *)

\* main-content: currentConfiguredServer = configuredServers.find(s => s.id === selectedService)
currentConfiguredServer ==
    IF selectedService \in ServerIds THEN ConfiguredServers[selectedService] ELSE Null

\* ConfiguredServerView, a tool card: onClick={() => onToggleToolSelection(toolId, riskLevel)}
ClickTool(tool) ==
    /\ currentConfiguredServer # Null
    /\ toggleToolSelection(ToolId(currentConfiguredServer.id, tool.name), riskLevelOf(tool))

\* ConfiguredServerView, the Select All / Deselect All button: onClick={onDeselectAll},
\* where onDeselectAll={deselectAllTools}: React calls the handler with the click event.
ClickDeselectAll ==
    /\ currentConfiguredServer # Null
    /\ deselectAllTools(ClickEvent)

\* A caller passing the displayed server's tools, or nothing: deselectAllTools(tools?)
CallDeselectAllTools ==
    \/ deselectAllTools(NoArgument)
    \/ /\ currentConfiguredServer # Null
       /\ deselectAllTools(ToolArray(currentConfiguredServer.tools))

----------------------------------------------------------------------------
(* Tool selection and risk gate: the state machine of the hook and its views *)

GateInit ==
    /\ selectedService = ConfigurationTab
    /\ selectedTools = EmptyMap
    /\ permissionRequest = Null
    /\ services = EmptyCatalog
    /\ attempted = {}
    /\ lastOp = [op |-> "init"]

SessionIdle ==
    /\ pc = "idle"
    /\ op = "none"
    /\ url = "none"
    /\ client = "null"
    /\ isConnected = FALSE
    /\ transport = "none"
    /\ remote = [outcome |-> "none"]
    /\ result = Null
    /\ events = << >>

GateNext ==
    \/ \E toolId \in ToolIds, riskLevel \in RiskLevels : toggleToolSelection(toolId, riskLevel)
    \/ \E s \in ServerIds : \E i \in 1..Len(ConfiguredServers[s].tools) :
            ClickTool(ConfiguredServers[s].tools[i])
    \/ approvePermission
    \/ denyPermission
    \/ ClickDeselectAll
    \/ CallDeselectAllTools
    \/ \E serviceId \in ServerIds \cup {ConfigurationTab} : onSelectService(serviceId)
    \/ \E catalog \in ServiceCatalogs : servicesLoaded(catalog)
    \/ \E s \in ServerIds : \E tool \in Range(ConfiguredServers[s].tools) :
            toggleStoredToolSelection(s, tool.name)
    \/ \E s \in ServerIds : \E tool \in Range(ConfiguredServers[s].tools) :
            \E selected \in BOOLEAN : setToolSelection(s, tool.name, selected)

----------------------------------------------------------------------------
(* MCP session operations: MCPServerClient and the *WithConfig actions *)

SessionOps == {"testMCPConnection", "callMCPToolWithConfig", "listMCPToolsWithConfig",
               "listMCPPromptsWithConfig", "listMCPResourcesWithConfig"}

\* config.url as the action receives it: a parseable URL, '' (or blank), or text that
\* new URL() rejects
UrlKinds == {"valid", "empty", "malformed"}

\* The actions that validate config.url before creating a client
ValidatesUrl(o) == o \in {"testMCPConnection", "listMCPToolsWithConfig"}

\* What the remote side answers to tools/call: content an array or not, isError a
\* boolean or absent
CallResponses ==
    [content : {"array", "absent"}, isError : {"true", "false", "absent"}]

\* Variant of the failure result that reports success; C23 must not hold of it.
FailureAsSuccess(message) == [success |-> TRUE, error |-> message]

\* { success: false, error }
Failure(message) == [success |-> FALSE, error |-> message]

\* testMCPConnection / listMCPToolsWithConfig: the two early returns inside the try
ValidationResult(u) ==
    IF u = "empty" THEN Failure("URL is required for HTTP transport")
    ELSE IF u = "malformed" THEN Failure("Invalid URL format")
    ELSE Null

\* MCPServerClient.callTool, the try branch: the normalised response
CallToolSuccess(response) ==
    [success |-> TRUE,
     content |-> IF response.content = "array" THEN "content" ELSE "[]",
     isError |-> IF response.isError = "absent" THEN FALSE ELSE response.isError = "true"]

\* Variant of the catch branch that reports a protocol failure as a tool error;
\* C9 must not hold of it.
CallToolFailureAsToolError(message) ==
    [success |-> TRUE, content |-> "[]", isError |-> TRUE]

\* MCPServerClient.callTool, the catch branch
CallToolFailure(message) == Failure(message)

\* The success value of the list actions: { success: true, tools | prompts | resources }
ListSuccess(o) == [success |-> TRUE, items |-> o]

\* The action starts: let client = null
Begin(o, u) ==
    /\ pc \in {"idle", "returned"}
    /\ pc' = IF ValidatesUrl(o) THEN "validate" ELSE "connect"
    /\ op' = o
    /\ url' = u
    /\ client' = "null"
    /\ isConnected' = FALSE
    /\ transport' = "none"
    /\ remote' = [outcome |-> "none"]
    /\ result' = Null
    /\ events' = << >>
    /\ UNCHANGED outsideSession

\* if (!config.url || config.url.trim() === '') return ...; try { new URL(config.url) }
Validate ==
    /\ pc = "validate"
    /\ IF ValidationResult(url) # Null
       THEN /\ result' = ValidationResult(url)
            /\ pc' = "finally"
       ELSE /\ pc' = "connect"
            /\ UNCHANGED result
    /\ UNCHANGED <<op, url, client, isConnected, transport, remote, events>>
    /\ UNCHANGED outsideSession

\* client = new MCPServerClient(config); await client.connect()
\* connect(): createTransport() throws on a URL that does not parse; otherwise the
\* transport exists and client.connect(transport) succeeds, fails before the
\* transport is started, or fails after it (the handshake is rejected).
Connect ==
    /\ pc = "connect"
    /\ client' = "client"
    /\ events' = Append(events, "connect")
    /\ \/ /\ url # "valid"
          /\ transport' = "none"
          /\ remote' = [outcome |-> "connect-failed"]
          /\ result' = Failure("MCP connection failed")
          /\ pc' = "finally"
          /\ UNCHANGED isConnected
       \/ /\ url = "valid"
          /\ transport' = "open"
          /\ isConnected' = TRUE
          /\ pc' = "rpc"
          /\ UNCHANGED <<remote, result>>
       \/ /\ url = "valid"
          /\ transport' \in {"created", "open"}
          /\ remote' = [outcome |-> "connect-failed"]
          /\ result' = Failure("MCP connection failed")
          /\ pc' = "finally"
          /\ UNCHANGED isConnected
    /\ UNCHANGED <<op, url>>
    /\ UNCHANGED outsideSession

\* await client.callTool(...): the remote completes the call or the request throws
CallTool ==
    /\ pc = "rpc"
    /\ op = "callMCPToolWithConfig"
    /\ isConnected
    /\ events' = Append(events, "rpc")
    /\ \/ \E response \in CallResponses :
             /\ remote' = [outcome |-> "completed", response |-> response]
             /\ result' = CallToolSuccess(response)
       \/ /\ remote' = [outcome |-> "rpc-failed"]
          /\ result' = CallToolFailure("request failed")
    /\ pc' = "finally"
    /\ UNCHANGED <<op, url, client, isConnected, transport>>
    /\ UNCHANGED outsideSession

\* await client.listTools() / listPrompts() / listResources(): a list, or a throw
\* that the action's catch turns into { success: false, error }
List ==
    /\ pc = "rpc"
    /\ op # "callMCPToolWithConfig"
    /\ isConnected
    /\ events' = Append(events, "rpc")
    /\ \/ /\ remote' = [outcome |-> "completed"]
          /\ result' = ListSuccess(op)
       \/ /\ remote' = [outcome |-> "rpc-failed"]
          /\ result' = Failure("Failed to list")
    /\ pc' = "finally"
    /\ UNCHANGED <<op, url, client, isConnected, transport>>
    /\ UNCHANGED outsideSession

\* MCPServerClient.disconnect: if (this.client && this.isConnected) await client.close()
DisconnectCloses == isConnected

\* finally { if (client) { await client.disconnect() } }
\* close() closes the transport, or throws (swallowed) and leaves it in either state.
Finally ==
    /\ pc = "finally"
    /\ IF client # "null"
       THEN /\ events' = Append(events, "disconnect")
            /\ IF DisconnectCloses
               THEN \/ /\ transport' = "closed"
                       /\ isConnected' = FALSE
                    \/ /\ transport' \in {"open", "closed"}
                       /\ UNCHANGED isConnected
               ELSE UNCHANGED <<transport, isConnected>>
       ELSE UNCHANGED <<events, transport, isConnected>>
    /\ pc' = "returned"
    /\ UNCHANGED <<op, url, client, remote, result>>
    /\ UNCHANGED outsideSession

SessionNext ==
    \/ \E o \in SessionOps, u \in UrlKinds : Begin(o, u)
    \/ Validate
    \/ Connect
    \/ CallTool
    \/ List
    \/ Finally

----------------------------------------------------------------------------
(* MCPServerClient used directly: connect, disconnect and the RPC methods *)

RpcMethods == {"listTools", "listPrompts", "listResources", "callTool",
               "getPrompt", "readResource"}

\* How many requests one behaviour sends to the remote side
MaxRequests == 2

\* A value thrown by a method
Thrown(message) == [threw |-> message]

\* ensureConnected: throw new Error("MCP Client is not connected. Call connect() first.")
NotConnectedError == Thrown("MCP Client is not connected. Call connect() first.")

\* ensureConnected passes when isConnected
PassesEnsureConnected == isConnected

\* What a method gives when the remote side answered
MethodSuccess(method) ==
    IF method = "callTool"
    THEN CallToolSuccess([content |-> "array", isError |-> "false"])
    ELSE ListSuccess(method)

\* What a method gives when the request threw: callTool returns a failure result,
\* the others rethrow
MethodFailure(method) ==
    IF method = "callTool"
    THEN CallToolFailure("request failed")
    ELSE Thrown("Failed: request failed")

\* connect() on a client that is not connected: the transport is created and
\* client.connect(transport) succeeds, or throws before or after the transport
\* was started; isConnected is set only after it returned
ClientConnect ==
    /\ lifecycle # "connected"
    /\ \/ /\ transport' = "open"
          /\ isConnected' = TRUE
          /\ lifecycle' = "connected"
          /\ result' = Null
       \/ /\ transport' \in {"created", "open"}
          /\ lifecycle' = "connectFailed"
          /\ result' = Thrown("MCP connection failed")
          /\ UNCHANGED isConnected
    /\ UNCHANGED events
    /\ UNCHANGED outsideClient

\* disconnect(): if (this.client && this.isConnected) { await client.close();
\* isConnected = false }; an error of close() is caught and logged
ClientDisconnect ==
    /\ IF DisconnectCloses
       THEN \/ /\ transport' = "closed"
               /\ isConnected' = FALSE
            \/ /\ transport' \in {"open", "closed"}
               /\ UNCHANGED isConnected
       ELSE UNCHANGED <<transport, isConnected>>
    /\ lifecycle' = IF lifecycle = "connected" THEN "disconnected" ELSE lifecycle
    /\ result' = Null
    /\ UNCHANGED events
    /\ UNCHANGED outsideClient

\* An RPC method: this.ensureConnected(); try { await this.client.<method>(...) }
Invoke(method) ==
    /\ IF PassesEnsureConnected
       THEN /\ Len(events) < MaxRequests
            /\ events' = Append(events, "rpc")
            /\ result' \in {MethodSuccess(method), MethodFailure(method)}
       ELSE /\ result' = NotConnectedError
            /\ UNCHANGED events
    /\ UNCHANGED <<isConnected, transport, lifecycle>>
    /\ UNCHANGED outsideClient

ClientInit == lifecycle = "new"

ClientNext ==
    \/ ClientConnect
    \/ ClientDisconnect
    \/ \E method \in RpcMethods : Invoke(method)

----------------------------------------------------------------------------
(* The registry of connected MCP servers kept by the routes *)

\* 5 * 60 * 1000 milliseconds
FiveMinutes == 5 * 60 * 1000

\* Spans by which the clock advances between two requests: 4m59s and 1s
OneSecond == FiveMinutes \div (5 * 60)
FourMinutes59 == FiveMinutes - OneSecond
Durations == {FourMinutes59, OneSecond}

\* How many times the clock advances in a behaviour
MaxTicks == 3

\* config.url of a request body: two URLs that pass z.string().url(), and text
\* that does not
ZeppelinUrl == "https://mcp.zeppelin.example/mcp"
OtherUrl == "https://tools.example/mcp"
Urls == {ZeppelinUrl, OtherUrl}
InvalidUrl == "not a url"
RequestUrls == Urls \cup {InvalidUrl}

\* z.string().url()
PassesUrlSchema(u) == u \in Urls

\* url.includes('zeppelin') ? 'Cairo Smart Contracts' : ... : url
ServerName(u) == IF u = ZeppelinUrl THEN "Cairo Smart Contracts" ELSE u

\* The tool lists a remote server answers tools/list with
RemoteToolLists ==
    { << DiscoveredTool("create_issue", "Create an issue") >>,
      << DiscoveredTool("create_issue", "Create an issue"),
         DiscoveredTool("list_branches", "List branches") >> }

\* What testMCPConnection / listMCPToolsWithConfig return to the route
SessionResults ==
    {[success |-> TRUE, tools |-> tools] : tools \in RemoteToolLists}
        \cup {Failure("MCP connection failed")}

\* tools.map(t => t.name)
ToolNames(tools) == [i \in 1..Len(tools) |-> tools[i].name]

\* Variant of the recording that appends the tool names to those of the entry
\* it finds; C25 must not hold of it.
TrackedMerging(u, tools) ==
    Put(connectedServers, u,
        [name |-> ServerName(u), url |-> u,
         tools |-> (IF Has(connectedServers, u) THEN connectedServers[u].tools ELSE << >>)
                      \o ToolNames(tools),
         lastSeen |-> now])

\* connectedServers.set(url, { name, url, tools: tools.map(t => t.name), lastSeen: new Date() })
Tracked(u, tools) ==
    Put(connectedServers, u,
        [name |-> ServerName(u), url |-> u, tools |-> ToolNames(tools), lastSeen |-> now])

\* new Date(Date.now() - 5 * 60 * 1000)
fiveMinutesAgo == now - FiveMinutes

\* Variant of the eviction test that also evicts an entry seen exactly five
\* minutes ago; C11 must not hold of it.
EvictedAtFiveMinutes(server) == server.lastSeen <= fiveMinutesAgo

\* server.lastSeen < fiveMinutesAgo
Evicted(server) == server.lastSeen < fiveMinutesAgo

\* The map after the eviction loop of getConnectedMCPServers
AfterEviction ==
    [u \in {k \in DOMAIN connectedServers : ~Evicted(connectedServers[k])} |->
        connectedServers[u]]

\* Array.from(connectedServers.values()), as a set of entries
Values(map) == {map[k] : k \in DOMAIN map}

\* getConnectedMCPServers(): evict, then return the remaining entries
getConnectedMCPServers ==
    /\ connectedServers' = AfterEviction
    /\ liveServers' = Values(AfterEviction)

\* Time passes between two requests
Tick(d) ==
    /\ ticks < MaxTicks
    /\ now' = now + d
    /\ ticks' = ticks + 1
    /\ UNCHANGED <<connectedServers, liveServers, lastRoute>>
    /\ UNCHANGED outsideRegistry

\* POST /api/mcp/test-connection: parse the body, run testMCPConnection, and
\* if (result.success && result.tools) trackMCPConnection(config.url, result.tools)
PostTestConnection(u, res) ==
    /\ connectedServers' =
          IF PassesUrlSchema(u) /\ res.success THEN Tracked(u, res.tools)
          ELSE connectedServers
    /\ lastRoute' = [route |-> "test-connection", url |-> u,
                     success |-> PassesUrlSchema(u) /\ res.success]
    /\ UNCHANGED <<now, ticks, liveServers>>
    /\ UNCHANGED outsideRegistry

\* POST /api/mcp/list-tools: parse the body, run listMCPToolsWithConfig, res.json(result)
PostListTools(u, res) ==
    /\ lastRoute' = [route |-> "list-tools", url |-> u,
                     success |-> PassesUrlSchema(u) /\ res.success]
    /\ UNCHANGED <<now, ticks, connectedServers, liveServers>>
    /\ UNCHANGED outsideRegistry

\* POST /api/chat: const connectedMCPServers = getConnectedMCPServers()
PostChat ==
    /\ getConnectedMCPServers
    /\ lastRoute' = [route |-> "chat", url |-> InvalidUrl, success |-> TRUE]
    /\ UNCHANGED <<now, ticks>>
    /\ UNCHANGED outsideRegistry

RegistryInit ==
    /\ now = 0
    /\ ticks = 0
    /\ connectedServers = EmptyMap
    /\ liveServers = {}
    /\ lastRoute = [route |-> "none", url |-> InvalidUrl, success |-> FALSE]

RegistryNext ==
    \/ \E d \in Durations : Tick(d)
    \/ \E u \in RequestUrls, res \in SessionResults : PostTestConnection(u, res)
    \/ \E u \in RequestUrls, res \in SessionResults : PostListTools(u, res)
    \/ PostChat

----------------------------------------------------------------------------
(* The configuration store: server configs and configured servers *)

\* The configs { url, bearerToken? } a caller hands to saveServiceConfig: without
\* the bearerToken property, with it undefined, and with a token
StoredConfigs ==
    { [url |-> OtherUrl],
      [url |-> OtherUrl, bearerToken |-> Undefined],
      [url |-> OtherUrl, bearerToken |-> "secret"] }

\* obj[field]: a property that is not there reads undefined
ReadProperty(obj, field) == IF Has(obj, field) THEN obj[field] ELSE Undefined

\* Two configs that read the same in url and in bearerToken
SameConfig(a, b) ==
    /\ ReadProperty(a, "url") = ReadProperty(b, "url")
    /\ ReadProperty(a, "bearerToken") = ReadProperty(b, "bearerToken")

\* loadServiceConfig(serviceId): JSON.parse(stored) if (stored), else null
loadServiceConfig(serviceId) ==
    IF getItem(getStorageKey(serviceId)) # Null
    THEN JSONparse(getItem(getStorageKey(serviceId)))
    ELSE Null

\* saveServiceConfig(serviceId, config): localStorage.setItem(key, JSON.stringify(config))
saveServiceConfig(serviceId, config) ==
    /\ localStorage' = Put(localStorage, getStorageKey(serviceId),
                           JSONstringify(WithoutUndefined(config)))
    /\ notifications' = << >>
    /\ saved' = Put(saved, serviceId, config)
    /\ lastOp' = [op |-> "saveServiceConfig", serviceId |-> serviceId]
    /\ UNCHANGED <<selectedService, selectedTools, permissionRequest, services, attempted>>
    /\ UNCHANGED outsideGate

\* removeServiceConfig(serviceId): localStorage.removeItem(key)
removeServiceConfig(serviceId) ==
    /\ localStorage' = Without(localStorage, getStorageKey(serviceId))
    /\ notifications' = << >>
    /\ saved' = Without(saved, serviceId)
    /\ lastOp' = [op |-> "removeServiceConfig", serviceId |-> serviceId,
                  again |-> lastOp = [op |-> "removeServiceConfig",
                                      serviceId |-> serviceId, again |-> FALSE]]
    /\ UNCHANGED <<selectedService, selectedTools, permissionRequest, services, attempted>>
    /\ UNCHANGED outsideGate

\* getAllServiceConfigs(): for every key that starts with 'mcp-client-' and does
\* not include '-tool-selection', configs[serviceId] = loadServiceConfig(serviceId)
\* if that is truthy: the parsed object or array of a stored text is
getAllServiceConfigs ==
    LET serviceIds == {WithoutPrefix(key) :
                          key \in {k \in DOMAIN localStorage :
                                      StartsWithPrefix(k) /\ ~IncludesToolSelection(k)}}
    IN  [serviceId \in {i \in serviceIds : getItem(getStorageKey(i)) # Null} |->
            loadServiceConfig(serviceId)]

\* A configured server as it is persisted: { ...server, createdAt }
Persisted(server) ==
    [id |-> server.id, tools |-> server.tools, createdAt |-> "createdAt"]

\* loadConfiguredServers(): JSON.parse(stored) if (stored), else []
loadConfiguredServers ==
    IF getItem(CONFIGURED_SERVERS_KEY) # Null
    THEN JSONparse(getItem(CONFIGURED_SERVERS_KEY))
    ELSE << >>

\* Variant of the filter that keeps every entry; C26 must not hold of it.
KeepingServer(servers, serverId) == servers

\* configuredServers.filter(s => s.id !== serverId)
WithoutServer(servers, serverId) ==
    SelectSeq(servers, LAMBDA server : server.id # serverId)

\* new CustomEvent('configuredServersChange', { detail: { servers } })
ConfiguredServersChange(servers) ==
    [type |-> "configuredServersChange", servers |-> servers]

\* event.detail of a 'configuredServersChange' event
Detail(event) == [servers |-> event.servers]

\* key.includes('configured-servers')
IncludesConfiguredServers(key) == key = CONFIGURED_SERVERS_KEY

\* MainContent, handleStorageChange(event), the listener of 'configuredServersChange':
\* if (event.detail?.key?.includes('configured-servers')) loadServers().
\* `prev` is the configuredServers state, `stored` the text under the key
\* when the listener runs; the result is the state it leaves.
handleStorageChange(event, prev, stored) ==
    IF "key" \in DOMAIN Detail(event) /\ IncludesConfiguredServers(Detail(event).key)
    THEN JSONparse(stored)
    ELSE prev

\* localStorage.setItem(CONFIGURED_SERVERS_KEY, JSON.stringify(updatedServers));
\* window.dispatchEvent(...), which runs the listener of MainContent before it returns
writeConfiguredServers(updatedServers) ==
    /\ localStorage' = Put(localStorage, CONFIGURED_SERVERS_KEY, JSONstringify(updatedServers))
    /\ notifications' = << ConfiguredServersChange(updatedServers) >>
    /\ configuredServers' = handleStorageChange(ConfiguredServersChange(updatedServers),
                                                configuredServers,
                                                JSONstringify(updatedServers))
    /\ UNCHANGED saved
    /\ UNCHANGED <<selectedService, selectedTools, permissionRequest, services, attempted>>
    /\ UNCHANGED outsideCatalog

\* saveConfiguredServer(server): drop the entry with the same id, push the new one
saveConfiguredServer(server) ==
    /\ writeConfiguredServers(Append(WithoutServer(loadConfiguredServers, server.id),
                                     Persisted(server)))
    /\ lastOp' = [op |-> "saveConfiguredServer", serviceId |-> server.id]

\* removeConfiguredServer(serverId)
removeConfiguredServer(serverId) ==
    /\ writeConfiguredServers(WithoutServer(loadConfiguredServers, serverId))
    /\ lastOp' = [op |-> "removeConfiguredServer", serviceId |-> serverId]

\* The servers a view saves: the snapshot with the tools the test listed, or,
\* for a server that listed none, an empty snapshot
ServerSnapshots ==
    {ConfiguredServers[s] : s \in ServerIds} \cup {[id |-> s, tools |-> << >>] : s \in ServerIds}

\* The store after the application mounted: the hook persisted its default config,
\* and the configured servers the views show are the persisted list
StoreInit ==
    /\ localStorage =
          Put(Put(EmptyMap, STORAGE_KEY, PersistedConfig(ConfigurationTab, EmptyMap)),
              CONFIGURED_SERVERS_KEY,
              JSONstringify(<< Persisted(ConfiguredServers["gh"]),
                               Persisted(ConfiguredServers["jira"]) >>))
    /\ notifications = << >>
    /\ saved = EmptyMap

StoreNext ==
    \/ \E serviceId \in ServerIds, config \in StoredConfigs :
            saveServiceConfig(serviceId, config)
    \/ \E serviceId \in ServerIds : removeServiceConfig(serviceId)
    \/ \E server \in ServerSnapshots : saveConfiguredServer(server)
    \/ \E serviceId \in ServerIds : removeConfiguredServer(serviceId)
    \/ \E s \in ServerIds : \E tool \in Range(ConfiguredServers[s].tools) :
            toggleStoredToolSelection(s, tool.name)
    \/ \E s \in ServerIds : \E tool \in Range(ConfiguredServers[s].tools) :
            \E selected \in BOOLEAN : setToolSelection(s, tool.name, selected)
    \/ \E serviceId \in ServerIds \cup {ConfigurationTab} : onSelectService(serviceId)

----------------------------------------------------------------------------
(* The POST /api/mcp/* routes around the session operations *)

\* The url of a request body: a URL, text that is no URL, or '' (or none)
BodyUrls == RequestUrls \cup {""}

\* config.url as the action sees the url of the body
UrlKind(u) ==
    IF PassesUrlSchema(u) THEN "valid" ELSE IF u = "" THEN "empty" ELSE "malformed"

RouteOf(o) ==
    CASE o = "testMCPConnection" -> "test-connection"
      [] o = "callMCPToolWithConfig" -> "call-tool"
      [] o = "listMCPToolsWithConfig" -> "list-tools"
      [] o = "listMCPPromptsWithConfig" -> "list-prompts"
      [] OTHER -> "list-resources"

\* A route has started the session operation lastRoute.route and awaits it
AwaitsOperation == lastRoute.route \in SessionOps

\* POST /api/mcp/<route>: configSchema.parse(req.body) throws on a url that is
\* not z.string().url() and the catch answers 400 { success: false, error };
\* otherwise the *WithConfig action starts
ReceiveMcp(o, u) ==
    /\ pc \in {"idle", "returned"}
    /\ ~AwaitsOperation
    /\ op' = o
    /\ url' = UrlKind(u)
    /\ client' = "null"
    /\ isConnected' = FALSE
    /\ transport' = "none"
    /\ remote' = [outcome |-> "none"]
    /\ events' = << >>
    /\ IF PassesUrlSchema(u)
       THEN /\ pc' = IF ValidatesUrl(o) THEN "validate" ELSE "connect"
            /\ result' = Null
            /\ lastRoute' = [route |-> o, url |-> u, success |-> FALSE]
       ELSE /\ pc' = "returned"
            /\ result' = Failure("Invalid request")
            /\ lastRoute' = [route |-> RouteOf(o), url |-> u, success |-> FALSE]
    /\ UNCHANGED <<now, ticks, connectedServers, liveServers>>
    /\ UNCHANGED <<gateVars, storeVars, lifecycle, chatVars, chatOp, viewVars, catalogVars>>

\* The action returned to the route: test-connection records the connection
\* if (result.success && result.tools), with the tools the remote side listed;
\* every route answers res.json(result)
RespondMcp ==
    /\ pc = "returned"
    /\ AwaitsOperation
    /\ IF lastRoute.route = "testMCPConnection" /\ result.success
       THEN \E tools \in RemoteToolLists :
                connectedServers' = Tracked(lastRoute.url, tools)
       ELSE UNCHANGED connectedServers
    /\ lastRoute' = [route |-> RouteOf(lastRoute.route), url |-> lastRoute.url,
                     success |-> result.success]
    /\ UNCHANGED <<now, ticks, liveServers>>
    /\ UNCHANGED outsideRegistry

\* A *WithConfig action called with a config that passed no schema
CallWithConfig(o, u) == ~AwaitsOperation /\ Begin(o, u)

McpRouteNext ==
    \/ \E o \in SessionOps, u \in BodyUrls : ReceiveMcp(o, u)
    \/ RespondMcp
    \/ \E o \in SessionOps, u \in UrlKinds : CallWithConfig(o, u)
    \/ Validate
    \/ Connect
    \/ CallTool
    \/ List
    \/ Finally

----------------------------------------------------------------------------
(* The configuration store on a storage whose calls may throw *)

\* The calls into localStorage and JSON that an operation makes and that may
\* throw: "read" is getItem or JSON.parse, "write" is setItem or removeItem
StorageCalls == {"read", "write"}

\* The catch block of a save or a remove: the error is logged, nothing is
\* stored and no event is dispatched
caught ==
    /\ configUntouched
    /\ UNCHANGED <<selectedService, selectedTools, permissionRequest, services, attempted>>
    /\ UNCHANGED outsideGate

\* A load whose read throws returns its default from below the catch block
loadServiceConfigOr(serviceId, failed) ==
    IF "read" \in failed THEN Null ELSE loadServiceConfig(serviceId)

loadToolSelectionOr(failed) ==
    IF "read" \in failed THEN EmptyMap ELSE loadToolSelection

loadConfiguredServersOr(failed) ==
    IF "read" \in failed THEN << >> ELSE loadConfiguredServers

\* getAllServiceConfigs(): the configs collected before the throw; here none
getAllServiceConfigsOr(failed) ==
    IF "read" \in failed THEN EmptyMap ELSE getAllServiceConfigs

FaultySaveServiceConfig(serviceId, config, failed) ==
    /\ IF "write" \in failed
       THEN caught
       ELSE /\ localStorage' = Put(localStorage, getStorageKey(serviceId),
                                   JSONstringify(WithoutUndefined(config)))
            /\ notifications' = << >>
            /\ saved' = Put(saved, serviceId, config)
            /\ UNCHANGED <<selectedService, selectedTools, permissionRequest, services,
                           attempted>>
            /\ UNCHANGED outsideGate
    /\ lastOp' = [op |-> "saveServiceConfig", kind |-> "save", failed |-> failed]

FaultyRemoveServiceConfig(serviceId, failed) ==
    /\ IF "write" \in failed
       THEN caught
       ELSE /\ localStorage' = Without(localStorage, getStorageKey(serviceId))
            /\ notifications' = << >>
            /\ saved' = Without(saved, serviceId)
            /\ UNCHANGED <<selectedService, selectedTools, permissionRequest, services,
                           attempted>>
            /\ UNCHANGED outsideGate
    /\ lastOp' = [op |-> "removeServiceConfig", kind |-> "save", failed |-> failed]

FaultySaveToolSelection(toolSelections, failed) ==
    IF "write" \in failed THEN caught ELSE saveToolSelection(toolSelections)

\* toggleToolSelection: loadToolSelection() and saveToolSelection() each catch
\* their own error, so a failed read hands {} to the save
FaultyToggleToolSelection(serviceId, toolName, failed) ==
    /\ FaultySaveToolSelection(
          Put(loadToolSelectionOr(failed), ToolId(serviceId, toolName),
              ~OrDefault(loadToolSelectionOr(failed), ToolId(serviceId, toolName), TRUE)),
          failed)
    /\ lastOp' = [op |-> "toggleToolSelection", kind |-> "save", failed |-> failed]

FaultySetToolSelection(serviceId, toolName, selected, failed) ==
    /\ FaultySaveToolSelection(
          Put(loadToolSelectionOr(failed), ToolId(serviceId, toolName), selected), failed)
    /\ lastOp' = [op |-> "setToolSelection", kind |-> "save", failed |-> failed]

FaultyWriteConfiguredServers(updatedServers, failed) ==
    IF "write" \in failed THEN caught ELSE writeConfiguredServers(updatedServers)

\* saveConfiguredServer: loadConfiguredServers() catches its own error, so a
\* failed read hands [] to the filter and the push
FaultySaveConfiguredServer(server, failed) ==
    /\ FaultyWriteConfiguredServers(
          Append(WithoutServer(loadConfiguredServersOr(failed), server.id),
                 Persisted(server)),
          failed)
    /\ lastOp' = [op |-> "saveConfiguredServer", kind |-> "save", failed |-> failed]

FaultyRemoveConfiguredServer(serverId, failed) ==
    /\ FaultyWriteConfiguredServers(
          WithoutServer(loadConfiguredServersOr(failed), serverId), failed)
    /\ lastOp' = [op |-> "removeConfiguredServer", kind |-> "save", failed |-> failed]

\* A load: nothing is stored; isDefault tells whether the caller got the
\* default of the load (null, {} or [])
FaultyLoad(name, isDefault, failed) ==
    /\ caught
    /\ lastOp' = [op |-> name, kind |-> "load", failed |-> failed,
                  isDefault |-> isDefault]

FaultyStoreNext ==
    \/ \E serviceId \in ServerIds, config \in StoredConfigs, failed \in SUBSET {"write"} :
            FaultySaveServiceConfig(serviceId, config, failed)
    \/ \E serviceId \in ServerIds, failed \in SUBSET {"write"} :
            FaultyRemoveServiceConfig(serviceId, failed)
    \/ \E s \in ServerIds, failed \in SUBSET StorageCalls :
            \E tool \in Range(ConfiguredServers[s].tools) :
                FaultyToggleToolSelection(s, tool.name, failed)
    \/ \E s \in ServerIds, failed \in SUBSET StorageCalls, selected \in BOOLEAN :
            \E tool \in Range(ConfiguredServers[s].tools) :
                FaultySetToolSelection(s, tool.name, selected, failed)
    \/ \E serviceId \in ServerIds, failed \in SUBSET StorageCalls :
            FaultySaveConfiguredServer(ConfiguredServers[serviceId], failed)
    \/ \E serviceId \in ServerIds, failed \in SUBSET StorageCalls :
            FaultyRemoveConfiguredServer(serviceId, failed)
    \/ \E serviceId \in ServerIds, failed \in SUBSET {"read"} :
            FaultyLoad("loadServiceConfig", loadServiceConfigOr(serviceId, failed) = Null, failed)
    \/ \E failed \in SUBSET {"read"} :
            FaultyLoad("loadToolSelection", DOMAIN loadToolSelectionOr(failed) = {}, failed)
    \/ \E failed \in SUBSET {"read"} :
            FaultyLoad("loadConfiguredServers", Len(loadConfiguredServersOr(failed)) = 0, failed)
    \/ \E failed \in SUBSET {"read"} :
            FaultyLoad("getAllServiceConfigs", DOMAIN getAllServiceConfigsOr(failed) = {}, failed)

----------------------------------------------------------------------------
(* The configuration store called with any service id *)

\* Ids that make getStorageKey(serviceId) the key of another record
ReservedIds == {"config", "tool-selection", "configured-servers"}

AnyServiceIds == ServerIds \cup ReservedIds

\* The key of the configured servers holds a service config: configuredServers
\* is no array, .filter throws inside the try and the catch logs it
ListKeyHoldsConfig == Has(saved, "configured-servers")

saveConfiguredServerOrCatch(server) ==
    IF ListKeyHoldsConfig
    THEN caught /\ lastOp' = [op |-> "saveConfiguredServer", serviceId |-> server.id]
    ELSE saveConfiguredServer(server)

NamespaceNext ==
    \/ \E serviceId \in AnyServiceIds : saveServiceConfig(serviceId, [url |-> OtherUrl])
    \/ \E serviceId \in AnyServiceIds : removeServiceConfig(serviceId)
    \/ \E server \in ServerSnapshots : saveConfiguredServerOrCatch(server)
    \/ \E s \in ServerIds : \E tool \in Range(ConfiguredServers[s].tools) :
            toggleStoredToolSelection(s, tool.name)
    \/ \E serviceId \in ServerIds \cup {ConfigurationTab} : onSelectService(serviceId)

----------------------------------------------------------------------------
(* The tool selection of the store, for any server id and tool name *)

\* Server ids and tool names as strings: plain ones, and ones that contain ':'
PlainServerIds == ServerIds

AnyServerIds == PlainServerIds \cup {"gh" \o ":" \o "x"}

AnyToolNames == {"create_issue", "x" \o ":" \o "create_issue"}

KeyNext ==
    \/ \E serviceId \in AnyServerIds, toolName \in AnyToolNames :
            toggleStoredToolSelection(serviceId, toolName)
    \/ \E serviceId \in AnyServerIds, toolName \in AnyToolNames, selected \in BOOLEAN :
            setToolSelection(serviceId, toolName, selected)

----------------------------------------------------------------------------
(* ConfiguredServerView: the displayed tool list and its refreshes *)

\* How many list-tools requests of the view are in flight at once
MaxRefreshes == 4

\* A value of the `tools` state, with the server whose snapshot or whose
\* list-tools answer it is
ToolsOf(serverId, list) == [server |-> serverId, tools |-> list]

\* server.tools || []
Snapshot(serverId) == ToolsOf(serverId, ConfiguredServers[serverId].tools)

\* if (result.success) { setTools(result.tools || []) }
AfterRefresh(serverId, list) == ToolsOf(serverId, list)

\* handleRefreshTools, up to its await of fetch('/api/mcp/list-tools') with
\* JSON.stringify(server.config)
StartRefresh(serverId) ==
    /\ Len(refreshes) < MaxRefreshes
    /\ viewIsLoading' = TRUE
    /\ refreshes' = Append(refreshes, serverId)

\* A tab is clicked: updateConfig({ selectedService }). MainContent renders the
\* ConfiguredServerView of a configured server without a key, so between two
\* servers the same view stays mounted and its effect on [server.id] runs:
\* setTools(server.tools || []); handleRefreshTools(). On the configuration
\* tab the view is unmounted and the answers to its requests are dropped.
SwitchTab(serviceId) ==
    /\ serviceId # selectedService
    /\ selectedService' = serviceId
    /\ persistConfig(serviceId, selectedTools)
    /\ lastOp' = [op |-> "onSelectService", serviceId |-> serviceId]
    /\ IF serviceId \in ServerIds
       THEN /\ viewTools' = Snapshot(serviceId)
            /\ StartRefresh(serviceId)
       ELSE /\ viewTools' = Null
            /\ viewIsLoading' = FALSE
            /\ refreshes' = << >>
    /\ UNCHANGED <<selectedTools, permissionRequest, services, attempted>>
    /\ UNCHANGED outsideView

\* The Refresh Tools button, disabled={isLoading}
ClickRefresh ==
    /\ viewTools # Null
    /\ ~viewIsLoading
    /\ StartRefresh(selectedService)
    /\ UNCHANGED viewTools
    /\ UNCHANGED <<gateVars, storeVars>>
    /\ UNCHANGED outsideView

\* The answer to the i-th request in flight arrives: the rest of
\* handleRefreshTools runs, with a tool list or with a failure
RefreshResponds(i) ==
    /\ i \in DOMAIN refreshes
    /\ \/ \E list \in RemoteToolLists : viewTools' = AfterRefresh(refreshes[i], list)
       \/ UNCHANGED viewTools
    /\ viewIsLoading' = FALSE
    /\ refreshes' = SubSeq(refreshes, 1, i - 1) \o SubSeq(refreshes, i + 1, Len(refreshes))
    /\ UNCHANGED <<gateVars, storeVars>>
    /\ UNCHANGED outsideView

ViewInit ==
    /\ viewTools = Null
    /\ viewIsLoading = FALSE
    /\ refreshes = << >>

ViewNext ==
    \/ \E serviceId \in ServerIds \cup {ConfigurationTab} : SwitchTab(serviceId)
    \/ ClickRefresh
    \/ \E i \in 1..MaxRefreshes : RefreshResponds(i)

----------------------------------------------------------------------------
(* MainContent: the configured servers it shows, and the store's notifications *)

\* configuredServers.find(s => s.id === serverId) finds an entry
Shown(serverId) == \E i \in DOMAIN configuredServers : configuredServers[i].id = serverId

\* A tab that is there to click: the configuration tab, or a shown server
SelectTab(serviceId) ==
    /\ serviceId = ConfigurationTab \/ Shown(serviceId)
    /\ SwitchTab(serviceId)

\* ConfiguredServerView, handleRemoveServer: removeConfiguredServer(server.id), whose
\* dispatch runs the listener, then onRemoveServer(server.id), MainContent's
\* handleRemoveServer: setConfiguredServers(prev => prev.filter(...)) and, the
\* removed server being the selected one, updateConfig({ selectedService:
\* "configuration" }), after which the view is unmounted and the config persisted
handleRemoveServer ==
    LET serverId == selectedService
        updatedServers == WithoutServer(loadConfiguredServers, serverId)
        afterWrite == Put(localStorage, CONFIGURED_SERVERS_KEY, JSONstringify(updatedServers))
    IN  /\ serverId \in ServerIds
        /\ Shown(serverId)
        /\ localStorage' = Put(afterWrite, STORAGE_KEY,
                               PersistedConfig(ConfigurationTab, selectedTools))
        /\ notifications' =
              << ConfiguredServersChange(updatedServers),
                 LocalStorageChange(STORAGE_KEY,
                                    PersistedConfig(ConfigurationTab, selectedTools)) >>
        /\ configuredServers' =
              WithoutServer(handleStorageChange(ConfiguredServersChange(updatedServers),
                                                configuredServers,
                                                JSONstringify(updatedServers)),
                            serverId)
        /\ selectedService' = ConfigurationTab
        /\ viewTools' = Null
        /\ viewIsLoading' = FALSE
        /\ refreshes' = << >>
        /\ lastOp' = [op |-> "handleRemoveServer", serviceId |-> serverId]
        /\ UNCHANGED saved
        /\ UNCHANGED <<selectedTools, permissionRequest, services, attempted>>
        /\ UNCHANGED <<sessionVars, registryVars, lifecycle, chatVars, chatOp>>

\* MainContent mounted: loadServers() set the state to the persisted list
CatalogInit ==
    configuredServers = loadConfiguredServers

\* The view's handlers, and the store's two writers called by any other code
CatalogNext ==
    \/ \E serviceId \in ServerIds \cup {ConfigurationTab} : SelectTab(serviceId)
    \/ handleRemoveServer
    \/ \E server \in ServerSnapshots : saveConfiguredServer(server)
    \/ \E serverId \in ServerIds : removeConfiguredServer(serverId)
    \/ \E i \in 1..MaxRefreshes : RefreshResponds(i)

----------------------------------------------------------------------------
(* Chat: sending a message, the callbacks of the send, and stopChat *)

\* How many messages the user sends
MaxSends == 3

\* What the user types into the chat input
MessageContents == {"list issues", "create an issue"}

userMessage(n, content) == [id |-> n, content |-> content, type |-> "user"]

thinkingMessage(n) == [id |-> n, type |-> "assistant", isThinking |-> TRUE]

\* data.response of POST /api/chat
ResponseMessage(n) == [id |-> n, type |-> "assistant"]

\* msg.isThinking, undefined on the messages that do not carry the property
IsThinking(msg) == "isThinking" \in DOMAIN msg /\ msg.isThinking

\* The mutated filter: every message is kept
KeepingThinking(msgs) == msgs

\* prev.filter(msg => !msg.isThinking)
WithoutThinking(msgs) == SelectSeq(msgs, LAMBDA msg : ~IsThinking(msg))

\* How many user messages the chat holds
Sent == Cardinality({i \in DOMAIN messages : messages[i].type = "user"})

\* apiRequest(method, url, data, signal): aborting the signal of a pending
\* request rejects it; a request that is not pending is not affected
AbortedRequest(req) == IF req = "pending" THEN "aborted" ELSE req

\* Object.keys(config.selectedTools).filter(key => config.selectedTools[key])
SelectedToolKeys(tools) == {key \in DOMAIN tools : tools[key]}

\* The JSON body mutationFn builds for a message without attachments
RequestBody(message) ==
    [message |-> message,
     serviceId |-> selectedService,
     selectedTools |-> SelectedToolKeys(selectedTools)]

\* sendMessage(content): the two messages are appended and the mutation
\* starts; mutationFn runs up to its await of apiRequest
sendMessage(content) ==
    /\ Sent < MaxSends
    /\ messages' = messages \o <<userMessage(Sent + 1, content), thinkingMessage(Sent + 1)>>
    /\ abortController' = [controller |-> Sent + 1]
    /\ chatRequest' = "pending"
    /\ requestBody' = RequestBody(content)
    /\ isPending' = TRUE
    /\ chatOp' = "sendMessage"
    /\ UNCHANGED outsideChat

\* The chat input and the send button are disabled while isSending
handleSendMessage(inputMessage) == ~isPending /\ sendMessage(inputMessage)

\* The response arrives: mutationFn resumes after apiRequest, then onSuccess
onSuccess ==
    /\ chatRequest = "pending"
    /\ messages' = Append(WithoutThinking(messages), ResponseMessage(Sent))
    /\ abortController' = Null
    /\ chatRequest' = "none"
    /\ isPending' = FALSE
    /\ UNCHANGED requestBody
    /\ chatOp' = "onSuccess"
    /\ UNCHANGED outsideChat

\* onError: apiRequest rejected
onError ==
    /\ messages' = WithoutThinking(messages)
    /\ abortController' = Null
    /\ chatRequest' = "none"
    /\ isPending' = FALSE
    /\ UNCHANGED requestBody
    /\ UNCHANGED outsideChat

\* The request fails by itself: network error or an error status
RequestFails == chatRequest = "pending" /\ onError /\ chatOp' = "onError"

\* The rejection of an aborted request reaches the mutation
AbortRejects == chatRequest = "aborted" /\ onError /\ chatOp' = "onAbort"

stopChat ==
    /\ IF abortController # Null
       THEN /\ chatRequest' = AbortedRequest(chatRequest)
            /\ abortController' = Null
            /\ chatOp' = "stopChat"
       ELSE /\ UNCHANGED <<chatRequest, abortController>>
            /\ chatOp' = "stopChat no controller"
    /\ UNCHANGED <<messages, isPending, requestBody>>
    /\ UNCHANGED outsideChat

ChatInit ==
    /\ messages = << >>
    /\ abortController = Null
    /\ chatRequest = "none"
    /\ isPending = FALSE
    /\ requestBody = Null
    /\ chatOp = "init"

ChatNext ==
    \/ \E inputMessage \in MessageContents : handleSendMessage(inputMessage)
    \/ onSuccess
    \/ RequestFails
    \/ AbortRejects
    \/ stopChat

----------------------------------------------------------------------------
(* The specifications: one initial state, one next-state relation per subsystem *)

Init ==
    /\ GateInit /\ SessionIdle /\ RegistryInit /\ StoreInit /\ ClientInit /\ ChatInit
    /\ ViewInit /\ CatalogInit

Spec == Init /\ [][GateNext]_vars

SessionSpec == Init /\ [][SessionNext]_vars

\* The steps of a session operation that the server takes on its own: the URL
\* checks, createTransport() throwing on a URL that does not parse, and the
\* finally block. The steps that wait for the remote side (the handshake of
\* connect, the RPC) carry no fairness: no timer of this code ends the wait.
SessionLiveSpec ==
    /\ SessionSpec
    /\ WF_vars(Validate)
    /\ WF_vars(Connect /\ url # "valid")
    /\ WF_vars(Finally)

RegistrySpec == Init /\ [][RegistryNext]_vars

StoreSpec == Init /\ [][StoreNext]_vars

ClientSpec == Init /\ [][ClientNext]_vars

McpRouteSpec == Init /\ [][McpRouteNext]_vars

NamespaceSpec == Init /\ [][NamespaceNext]_vars

KeySpec == Init /\ [][KeyNext]_vars

ViewSpec == Init /\ [][ViewNext]_vars

CatalogSpec == Init /\ [][CatalogNext]_vars

FaultyStoreSpec == Init /\ [][FaultyStoreNext]_vars

ChatSpec == Init /\ [][ChatNext]_vars

\* The rejection of an aborted request is delivered by the event loop, with no
\* input from the user or the server
ChatLiveSpec == ChatSpec /\ WF_vars(AbortRejects)

----------------------------------------------------------------------------
(* Claims about the tool selection and risk gate, checked under Spec *)

\* C1: default-allow read. Every identity absent from the selection map reads as
\* selected: through the store's isToolSelected, through the flag the risk gate
\* reads, and through the flag the view of the displayed server shows.
C1_DefaultAllowRead ==
    \A s \in ServerIds : \A tool \in Range(ConfiguredServers[s].tools) :
        LET toolId == ToolId(s, tool.name) IN
        /\ ~Has(loadToolSelection, toolId) => isToolSelected(s, tool.name)
        /\ ~Has(selectedTools, toolId) => currentlySelected(toolId)
        /\ (~Has(selectedTools, toolId) /\ selectedService = s) => isSelected(toolId)

C3_HighRiskToggleRaisesRequest ==
    [][\A s \in ServerIds : \A tool \in Range(ConfiguredServers[s].tools) :
          (/\ selectedService = s
           /\ ~isSelected(ToolId(s, tool.name))
           /\ toggleToolSelection(ToolId(s, tool.name), "high")) =>
              /\ selectedTools' = selectedTools
              /\ permissionRequest' =
                     [toolId |-> ToolId(s, tool.name), toolName |-> tool.name,
                      description |-> tool.description, riskLevel |-> "high"]]_vars

\* A step in which approvePermission commits the pending request of toolId
ApprovedFor(toolId) ==
    /\ permissionRequest # Null
    /\ permissionRequest.toolId = toolId
    /\ approvePermission

\* A step in which deselectAllTools, given a tool list while nothing is selected,
\* selects every tool of the list
SelectAllStep ==
    /\ ~hasAnySelected
    /\ currentConfiguredServer # Null
    /\ deselectAllTools(ToolArray(currentConfiguredServer.tools))

\* C4 as stated: once a high-risk toggle into selected was attempted for an identity,
\* only approvePermission for that identity makes it selected; toggles of other
\* tools, denyPermission and select-all / deselect-all leave it unselected.
C4_UnselectedUntilApproved ==
    [][\A toolId \in attempted :
          (~isSelected(toolId) /\ isSelected(toolId)') =>
              \/ ApprovedFor(toolId)
              \/ \E riskLevel \in RiskLevels : toggleToolSelection(toolId, riskLevel)]_vars

\* C4 amended: once a high-risk toggle into selected was attempted for an identity,
\* it becomes selected only by approvePermission for it, by a select-all, or by a
\* toggle of that same identity passed a risk level other than high.
C4_UnselectedUntilApprovedOrBulk ==
    [][\A toolId \in attempted :
          (~isSelected(toolId) /\ isSelected(toolId)') =>
              \/ ApprovedFor(toolId)
              \/ SelectAllStep
              \/ \E riskLevel \in {"low", "medium"} :
                     toggleToolSelection(toolId, riskLevel)]_vars

C4_Witness ==
    /\ \E toolId \in attempted : ~isSelected(toolId)
    /\ lastOp.op = "denyPermission"
    /\ lastOp.toolId \in attempted

\* C5: approvePermission with a pending request selects the pending identity, clears
\* the request and leaves every other identity's entry as it was; with no pending
\* request it changes neither the selection nor the request.
C5_ApproveCommitsPending ==
    [][approvePermission =>
          IF permissionRequest # Null
          THEN /\ OrDefault(selectedTools', permissionRequest.toolId, FALSE)
               /\ permissionRequest' = Null
               /\ \A toolId \in (DOMAIN selectedTools \cup DOMAIN selectedTools')
                                  \ {permissionRequest.toolId} :
                      /\ Has(selectedTools, toolId) /\ Has(selectedTools', toolId)
                      /\ selectedTools'[toolId] = selectedTools[toolId]
          ELSE /\ selectedTools' = selectedTools
               /\ permissionRequest' = permissionRequest]_vars

C5_Witness ==
    /\ lastOp.op = "approvePermission"
    /\ lastOp.toolId \in ToolIds
    /\ isSelected(lastOp.toolId)
    /\ permissionRequest = Null
    /\ \E other \in DOMAIN selectedTools : other # lastOp.toolId /\ ~selectedTools[other]

\* C6: a gated (pending) high-risk toggle changes no selection entry and the tool
\* reads unselected after it; denyPermission clears the request, changes no
\* selection entry, and a pending tool that read unselected still does.
C6_DenyAndPendingLeaveSelection ==
    [][/\ \A toolId \in ToolIds, riskLevel \in RiskLevels :
            (ToggleGated(toolId, riskLevel) /\ toggleToolSelection(toolId, riskLevel)) =>
                /\ selectedTools' = selectedTools
                /\ ~isSelected(toolId)'
       /\ denyPermission =>
            /\ selectedTools' = selectedTools
            /\ permissionRequest' = Null
            /\ (permissionRequest # Null /\ ~isSelected(permissionRequest.toolId)) =>
                   ~OrDefault(selectedTools', permissionRequest.toolId, FALSE)]_vars

C6_Witness ==
    /\ lastOp.op = "denyPermission"
    /\ lastOp.toolId \in ToolIds
    /\ ~isSelected(lastOp.toolId)
    /\ permissionRequest = Null

\* C7: with no tool selected, the Select All / Deselect All control selects every
\* known tool of the displayed server, high-risk ones included, and creates no
\* PermissionRequest.
C7_SelectAllControlSelectsEveryTool ==
    [][(~hasAnySelected /\ ClickDeselectAll) =>
          /\ \A tool \in Range(currentConfiguredServer.tools) :
                 OrDefault(selectedTools', ToolId(selectedService, tool.name), FALSE)
          /\ permissionRequest' = permissionRequest]_vars

\* The entries of selectedTools that belong to serverId
EntriesOf(selection, serverId) ==
    {toolId \in DOMAIN selection :
        \E tool \in Range(ConfiguredServers[serverId].tools) :
            toolId = ToolId(serverId, tool.name)}

\* C8: with a tool of the active service selected, deselectAllTools leaves no tool
\* of the active service selected and leaves the entries of the other services
\* as they were.
C8_DeselectAllClearsActiveServiceOnly ==
    [][(/\ currentConfiguredServer # Null
        /\ \E toolId \in EntriesOf(selectedTools, selectedService) : selectedTools[toolId]
        /\ ClickDeselectAll) =>
          /\ \A tool \in Range(currentConfiguredServer.tools) :
                 ~OrDefault(selectedTools', ToolId(selectedService, tool.name), FALSE)
          /\ \A s \in ServerIds \ {selectedService} :
                 /\ EntriesOf(selectedTools', s) = EntriesOf(selectedTools, s)
                 /\ \A toolId \in EntriesOf(selectedTools, s) :
                        selectedTools'[toolId] = selectedTools[toolId]]_vars

\* C16: a pending request is not overwritten. A high-risk toggle into selected for
\* another identity, attempted while a request is pending, leaves the pending
\* request in place.
C16_PendingRequestNotOverwritten ==
    [][\A toolId \in ToolIds :
          (/\ permissionRequest # Null
           /\ permissionRequest.toolId # toolId
           /\ ToggleGated(toolId, "high")
           /\ toggleToolSelection(toolId, "high")) =>
              permissionRequest' = permissionRequest]_vars

----------------------------------------------------------------------------
(* Claims about the session operations, checked under SessionSpec *)

\* C9: when callMCPToolWithConfig returns, a completed call whose tool reported
\* isError = true gave { success: true, isError: true, content }, and a failure of
\* connect or of the request gave { success: false, error } with no content.
C9_CallToolKeepsFailureKindsApart ==
    (pc = "returned" /\ op = "callMCPToolWithConfig") =>
        /\ (remote.outcome = "completed" /\ remote.response.isError = "true") =>
               /\ result.success
               /\ "isError" \in DOMAIN result /\ result.isError
               /\ "content" \in DOMAIN result
        /\ remote.outcome \in {"connect-failed", "rpc-failed"} =>
               /\ ~result.success
               /\ "error" \in DOMAIN result
               /\ "content" \notin DOMAIN result
               /\ "isError" \notin DOMAIN result

C9_Witness ==
    /\ pc = "returned"
    /\ op = "callMCPToolWithConfig"
    /\ remote.outcome = "completed"
    /\ remote.response.isError = "true"
    /\ result.success /\ result.isError

\* C10: when a session operation returns, connect came before the single RPC,
\* which came before disconnect; the cleanup ran whenever a client was created;
\* and no transport the operation opened is still open.
C10_CleanupLeavesNoTransportOpen ==
    pc = "returned" =>
        /\ events \in {<< >>, <<"connect", "disconnect">>, <<"connect", "rpc", "disconnect">>}
        /\ client # "null" => (events # << >> /\ events[Len(events)] = "disconnect")
        /\ transport # "open"

\* The operation waits for the remote side: the handshake of connect, or the RPC
AwaitsRemote == (pc = "connect" /\ url = "valid") \/ pc = "rpc"

\* C18: every session operation is bounded by a timeout: an operation that waits
\* for the remote side eventually returns, even if the remote side never answers.
C18_SessionOperationReturns == AwaitsRemote ~> (pc = "returned")

----------------------------------------------------------------------------
(* Claims about the registry of connected servers, checked under RegistrySpec *)

\* C11: a read of the registry at time t returns exactly the entries whose lastSeen
\* is not older than five minutes before t and deletes all others from the map; an
\* entry last recorded at t0 is returned by a read at t0 + 4m59s and is neither
\* returned nor kept by a read at t0 + 5m01s or later.
C11_LivenessWindow ==
    [][PostChat =>
          /\ liveServers' = {e \in Values(connectedServers) : now - e.lastSeen <= FiveMinutes}
          /\ DOMAIN connectedServers' =
                 {u \in DOMAIN connectedServers :
                     now - connectedServers[u].lastSeen <= FiveMinutes}
          /\ \A u \in DOMAIN connectedServers' : connectedServers'[u] = connectedServers[u]
          /\ \A u \in DOMAIN connectedServers :
                 /\ now = connectedServers[u].lastSeen + FourMinutes59 =>
                        connectedServers[u] \in liveServers'
                 /\ now >= connectedServers[u].lastSeen + FiveMinutes + OneSecond =>
                        /\ connectedServers[u] \notin liveServers'
                        /\ u \notin DOMAIN connectedServers']_vars

C11_Witness ==
    /\ lastRoute.route = "chat"
    /\ \E e \in liveServers : now = e.lastSeen + FourMinutes59
    /\ \E u \in Urls : u \notin DOMAIN connectedServers

\* C17: a successful connection test and a successful tool-list call against a URL
\* both create or refresh the registry entry of that URL with lastSeen = now.
C17_SuccessRefreshesEntry ==
    [][\A u \in Urls, res \in SessionResults :
          (res.success /\ (PostTestConnection(u, res) \/ PostListTools(u, res))) =>
              /\ Has(connectedServers', u)
              /\ connectedServers'[u].lastSeen = now]_vars

----------------------------------------------------------------------------
(* Claims about the configuration store, checked under StoreSpec *)

C13_RemoveIsIdempotent ==
    [][\A serviceId \in ServerIds :
          removeServiceConfig(serviceId) =>
              /\ loadServiceConfig(serviceId)' = Null
              /\ \A other \in ServerIds \ {serviceId} :
                     loadServiceConfig(other)' = loadServiceConfig(other)]_vars

C13_Witness ==
    /\ lastOp.op = "removeServiceConfig"
    /\ lastOp.again
    /\ loadServiceConfig(lastOp.serviceId) = Null
    /\ \E other \in ServerIds \ {lastOp.serviceId} : loadServiceConfig(other) # Null

\* C14: getAllServiceConfigs returns exactly the id -> config pairs that were saved
\* through saveServiceConfig and not removed since; no entry comes from the key of
\* the tool selection, of the hook's config or of the configured servers.
C14_ListsOnlySavedConfigs ==
    /\ DOMAIN getAllServiceConfigs = DOMAIN saved
    /\ \A serviceId \in DOMAIN saved :
           SameConfig(getAllServiceConfigs[serviceId], saved[serviceId])

----------------------------------------------------------------------------
(* Claims about MCPServerClient used directly, checked under ClientSpec *)

\* C15: an RPC method invoked on a client that was never connected, whose connect
\* failed, or that was disconnected, throws the not-connected error and sends no
\* request to the remote side.
C15_NotConnectedRaisesAndSendsNothing ==
    [][\A method \in RpcMethods :
          (lifecycle # "connected" /\ Invoke(method)) =>
              /\ result' = NotConnectedError
              /\ events' = events]_vars

----------------------------------------------------------------------------
(* Claims about chat cancellation, checked under ChatLiveSpec *)

NoThinking == \A i \in DOMAIN messages : ~IsThinking(messages[i])

----------------------------------------------------------------------------
(* Claims about the notifications of the configuration store, checked under StoreSpec *)

\* The saves of the store, and the key each of them writes
SaveOps ==
    {"saveServiceConfig", "toggleStoredToolSelection", "setToolSelection",
     "saveConfiguredServer", "removeConfiguredServer"}

WrittenKey(last) ==
    CASE last.op = "saveServiceConfig" -> getStorageKey(last.serviceId)
      [] last.op \in {"toggleStoredToolSelection", "setToolSelection"} -> TOOL_SELECTION_KEY
      [] OTHER -> CONFIGURED_SERVERS_KEY

\* The event tells of the value that `stored` holds under the key
CarriesValue(event, key, stored) ==
    \/ /\ event.type = "localStorageChange"
       /\ event.key = key
       /\ event.newValue = stored[key]
    \/ /\ event.type = "configuredServersChange"
       /\ key = CONFIGURED_SERVERS_KEY
       /\ JSONstringify(event.servers) = stored[key]

\* C20: every save into the configuration store (saveServiceConfig,
\* saveToolSelection through the toggles and setters, saveConfiguredServer,
\* removeConfiguredServer) has dispatched, when it returns, a change event that
\* carries the value it wrote.
C20_EverySaveNotifies ==
    [][(lastOp'.op \in SaveOps) =>
          \E i \in DOMAIN notifications' :
              CarriesValue(notifications'[i], WrittenKey(lastOp'), localStorage')]_vars

----------------------------------------------------------------------------
(* Claims about the store on a failing storage, checked under FaultyStoreSpec *)

\* C21: no operation of the configuration store lets a persistence failure
\* out. When a read, a write or a (de)serialisation throws, a save or a remove
\* returns with the previously stored values unchanged, and a load returns its
\* default (null, {} or []).
C21_FailureLeavesStoreAndReturnsDefault ==
    [][(lastOp'.op # "init" /\ lastOp'.failed # {}) =>
          /\ (lastOp'.kind = "save") => (localStorage' = localStorage)
          /\ (lastOp'.kind = "load") => lastOp'.isDefault]_vars

----------------------------------------------------------------------------
(* Claims about the chat request, checked under ChatSpec *)

\* C22: a discovered tool whose identity has no entry in the selection map is
\* among the selected tools that sendMessage sends with the chat request.
C22_AbsentToolSentAsSelected ==
    [][(chatOp' = "sendMessage" /\ messages' # messages) =>
          \A toolId \in ToolIds :
              ~Has(selectedTools, toolId) => toolId \in requestBody'.selectedTools]_vars

----------------------------------------------------------------------------
(* Claims about the MCP routes, checked under McpRouteSpec *)

----------------------------------------------------------------------------
(* Claims about the two toggles, checked under Spec *)

\* C24: the state machine of an identity starts in Selected. A toggle of risk
\* level low or medium on an identity absent from the selection map stores the
\* flag false, and the hook's toggle leaves the flag that the store's toggle
\* computes from the same map.
C24_AbsentToggleUnselectsAsStore ==
    [][\A toolId \in ToolIds, riskLevel \in {"low", "medium"} :
          (toggleToolSelection(toolId, riskLevel) /\ ~Has(selectedTools, toolId)) =>
              /\ selectedTools'[toolId] = FALSE
              /\ selectedTools'[toolId] = StoreToggled(selectedTools, toolId)[toolId]]_vars

----------------------------------------------------------------------------
(* Claims about the recordings of the registry, checked under RegistrySpec *)

\* C25: trackMCPConnection is an upsert keyed by the raw URL. The registry
\* holds one entry per URL, filed under its own url; a recording for a URL
\* leaves that URL's entry with the tool names of the latest result only and
\* lastSeen = now, and leaves the entries of the other URLs as they were.
C25_RecordingUpsertsByUrl ==
    /\ [](\A u \in DOMAIN connectedServers : connectedServers[u].url = u)
    /\ [][\A u \in Urls, res \in SessionResults :
            (PostTestConnection(u, res) /\ res.success) =>
                /\ connectedServers'[u].tools = ToolNames(res.tools)
                /\ connectedServers'[u].lastSeen = now
                /\ DOMAIN connectedServers' = DOMAIN connectedServers \cup {u}
                /\ \A other \in DOMAIN connectedServers \ {u} :
                      connectedServers'[other] = connectedServers[other]]_vars

\* Both URLs are tracked, recorded at different times with different tool
\* lists, the later one by the test-connection that just ran
C25_Witness ==
    /\ lastRoute.route = "test-connection"
    /\ lastRoute.success
    /\ DOMAIN connectedServers = Urls
    /\ connectedServers[lastRoute.url].lastSeen = now
    /\ now > 0
    /\ \E other \in Urls :
          /\ connectedServers[other].lastSeen < now
          /\ connectedServers[other].tools # connectedServers[lastRoute.url].tools

----------------------------------------------------------------------------
(* Claims about the configured-server list, checked under StoreSpec *)

\* The entries of the persisted list that carry the id
EntriesWithId(servers, serverId) ==
    SelectSeq(servers, LAMBDA server : server.id = serverId)

\* C26: the persisted configured-server list holds at most one entry per id.
\* Saving a server leaves exactly the new entry under its id and the entries of
\* the other ids as they were; removing an id leaves the list without that
\* id's entry and the others as they were, so that removing an unknown id
\* changes nothing in the list.
C26_ConfiguredServersUniqueById ==
    /\ [](\A i, j \in DOMAIN loadConfiguredServers :
            (loadConfiguredServers[i].id = loadConfiguredServers[j].id) => (i = j))
    /\ [][\A server \in ServerSnapshots :
            saveConfiguredServer(server) =>
                /\ EntriesWithId(loadConfiguredServers', server.id) = << Persisted(server) >>
                /\ WithoutServer(loadConfiguredServers', server.id)
                      = WithoutServer(loadConfiguredServers, server.id)]_vars
    /\ [][\A serverId \in ServerIds :
            removeConfiguredServer(serverId) =>
                /\ EntriesWithId(loadConfiguredServers', serverId) = << >>
                /\ WithoutServer(loadConfiguredServers', serverId)
                      = WithoutServer(loadConfiguredServers, serverId)
                /\ (EntriesWithId(loadConfiguredServers, serverId) = << >>)
                      => (loadConfiguredServers' = loadConfiguredServers)]_vars

\* A server was saved again with another snapshot while the other server was
\* listed too: its old entry is gone
C26_Witness ==
    /\ lastOp.op = "saveConfiguredServer"
    /\ Len(loadConfiguredServers) = 2
    /\ EntriesWithId(loadConfiguredServers, lastOp.serviceId)
          = << Persisted([id |-> lastOp.serviceId, tools |-> << >>]) >>

----------------------------------------------------------------------------
(* Claims about the keys of the store, checked under NamespaceSpec *)

\* The records of the store that are no service config
OtherRecordKeys == {TOOL_SELECTION_KEY, CONFIGURED_SERVERS_KEY, STORAGE_KEY}

\* C27: key-namespace isolation. For every service id, saveServiceConfig and
\* removeServiceConfig leave the persisted tool selection, the configured-server
\* list and the hook's persisted configuration as they were, and the saves of
\* the tool selection and of the configured servers leave what
\* loadServiceConfig returns for every id as it was.
C27_ServiceConfigKeysAreIsolated ==
    /\ [][(lastOp'.op \in {"saveServiceConfig", "removeServiceConfig"}) =>
            \A key \in OtherRecordKeys :
                /\ Has(localStorage', key) = Has(localStorage, key)
                /\ Has(localStorage, key) => (localStorage'[key] = localStorage[key])]_vars
    /\ [][(lastOp'.op \in {"toggleStoredToolSelection", "saveConfiguredServer"}) =>
            \A serviceId \in AnyServiceIds :
                LET key == getStorageKey(serviceId) IN
                /\ Has(localStorage', key) = Has(localStorage, key)
                /\ Has(localStorage, key) => (localStorage'[key] = localStorage[key])]_vars

----------------------------------------------------------------------------
(* Claims about the composite key, checked under KeySpec *)

\* A toggle or a set on the pair leaves the flag that isToolSelected returns
\* for every other pair of the given server ids as it was
OtherPairsUntouched(serverIds) ==
    \A s1 \in serverIds, s2 \in serverIds, t1 \in AnyToolNames, t2 \in AnyToolNames :
        (/\ <<s1, t1>> # <<s2, t2>>
         /\ \/ toggleStoredToolSelection(s1, t1)
            \/ \E selected \in BOOLEAN : setToolSelection(s1, t1, selected))
        => (isToolSelected(s2, t2)' = isToolSelected(s2, t2))

\* C28: the composite key is injective: toggleToolSelection or setToolSelection
\* on one (serverId, toolName) pair never changes what isToolSelected returns
\* for a different pair.
C28_KeyInjective == [][OtherPairsUntouched(AnyServerIds)]_vars

\* C28, amended: for server ids that contain no ':', toggleToolSelection or
\* setToolSelection on one pair never changes what isToolSelected returns for a
\* different pair, whatever the tool names contain.
C28_KeyInjectiveForPlainServerIds == [][OtherPairsUntouched(PlainServerIds)]_vars

\* A tool whose name contains ':' was unselected on one server while the tool
\* of the other server with the same name reads as selected
C28_Witness ==
    /\ lastOp.op \in {"toggleStoredToolSelection", "setToolSelection"}
    /\ ~isToolSelected("gh", "x" \o ":" \o "create_issue")
    /\ isToolSelected("jira", "x" \o ":" \o "create_issue")
    /\ ~isToolSelected("jira", "create_issue")

----------------------------------------------------------------------------
(* Claims about the displayed tool list, checked under ViewSpec *)

\* C29: whatever the order of tab switches and answers to refreshes, the tool
\* list the ConfiguredServerView shows is the snapshot of the displayed server
\* or the answer to a list-tools request made for that server; the answer to
\* a refresh started for another server never becomes the displayed list.
C29_DisplayedToolsBelongToDisplayedServer ==
    (viewTools # Null) => (viewTools.server = selectedService)

\* C30: after every saveConfiguredServer or removeConfiguredServer, whose
\* 'configuredServersChange' event MainContent has handled when the call returns,
\* the configuredServers list of MainContent equals the persisted list.
C30_CatalogFollowsStore ==
    [][(lastOp'.op \in {"saveConfiguredServer", "removeConfiguredServer"}) =>
          (configuredServers' = loadConfiguredServers')]_vars

====
